---------------------------- MODULE Spec2Model ----------------------------
(***************************************************************************)
(* Sharetape speech-to-text pipeline (src/sharetape.py).                   *)
(*                                                                         *)
(* Three specifications over one set of variables:                         *)
(*   SpecDownmix   the stereo -> mono conversion of handle_speech_2_text,  *)
(*                 applied to bounded sample sequences;                    *)
(*   SpecAssemble  the transcript / subtitle assembly loop of              *)
(*                 handle_speech_2_text, applied to bounded sequences of   *)
(*                 recognizer result records;                              *)
(*   Spec          one run of extract_transcript: audio extraction,        *)
(*                 preparation, validation, the chunked recognition loop,  *)
(*                 assembly and the three writes.                          *)
(*                                                                         *)
(* Times are integers (milliseconds).  In Spec the audio is represented by *)
(* its frame count; sample values are the subject of SpecDownmix.          *)
(***************************************************************************)
EXTENDS Integers, Sequences, FiniteSets, TLC

VARIABLES
    pc,                \* position of the run
    error,             \* exception that ended the run, "none" if none
    \* ---- audio samples (SpecDownmix)
    data,              \* array returned by wav.read: [ndim, left, right]
    mono_data,         \* array handed to wav.write
    \* ---- run of extract_transcript (Spec)
    video,             \* self.video ("" when --audio was given)
    clip_audio,        \* my_clip.audio is truthy
    audio_exists,      \* the file self.audio exists
    progress_cb,       \* self.progress_cb: "none" or "installed"
    reports,           \* calls of self._progress: <<desc, current, total>>
    wf,                \* the opened mono wave: header, frame count, position
    total_frames,
    processed_frames,
    rec,               \* the recognizer
    fed,               \* frame counts of the chunks fed, in order
    completed,         \* records of the segments the recognizer completed
    final_calls,       \* number of FinalResult() calls
    artifacts,         \* files written by extract_transcript, in order
    \* ---- assembly (Spec and SpecAssemble)
    results,           \* records returned by Result() / FinalResult()
    res_i,             \* position of `for res in results`
    subs,
    total_lines,
    total_words,
    ret                \* value returned by handle_speech_2_text

vars == <<pc, error, data, mono_data, video, clip_audio, audio_exists,
          progress_cb, reports, wf, total_frames, processed_frames, rec, fed,
          completed, final_calls, artifacts, results, res_i, subs,
          total_lines, total_words, ret>>

audioVars == <<data, mono_data>>
runVars   == <<video, clip_audio, audio_exists, progress_cb, reports, wf,
               total_frames, processed_frames, rec, fed, completed,
               final_calls, artifacts>>
asmVars   == <<results, res_i, subs, total_lines, total_words, ret>>

---------------------------------------------------------------------------
(* Bounds *)

MaxFrames == 2      \* samples per channel in SpecDownmix
MaxRecords == 3     \* result records in SpecAssemble
MaxChunks == 2      \* full chunks of audio in Spec

---------------------------------------------------------------------------
(* Fixed-width integers (numpy astype) *)

Int16Min == -32768
Int16Max == 32767
Int32Max == 2147483647

\* numpy's astype to a signed w-bit integer: wrap-around modulo 2^w
WrapSigned(x, w) == ((x + 2^(w-1)) % 2^w) - 2^(w-1)

AsInt16(x) == WrapSigned(x, 16)
AsInt32(x) ==
    IF -Int32Max - 1 <= x /\ x <= Int32Max THEN x ELSE WrapSigned(x, 32)

Min(a, b) == IF a <= b THEN a ELSE b

---------------------------------------------------------------------------
(* Stereo -> mono, src/sharetape.py:80-86 *)

\* the same average with the channels left in int16: the sum wraps
AverageInt16(l, r) == AsInt16(AsInt16(AsInt16(l) + AsInt16(r)) \div 2)

\* ((left.astype(int32) + right.astype(int32)) // 2).astype(int16):
\* int32 addition, floor division, cast back to int16
Average(l, r) == AsInt16(AsInt32(AsInt32(l) + AsInt32(r)) \div 2)

\* mono input (ndim == 1) passes through astype("int16"); otherwise columns
\* 0 and 1 are averaged per frame
ToMono(d) ==
    IF d.ndim = 1
    THEN [i \in 1..Len(d.left) |-> AsInt16(d.left[i])]
    ELSE [i \in 1..Len(d.left) |-> Average(d.left[i], d.right[i])]

\* 16-bit samples the inputs are drawn from: the extremes, and small values
\* of both signs and parities
Samples == {Int16Min, -1, 0, 1, 2, Int16Max}

SeqsUpTo(S, n) == UNION {[1..k -> S] : k \in 0..n}

\* arrays of at most n frames: mono (ndim 1) or two columns (ndim 2)
AudioInputs(n) ==
    {[ndim |-> 1, left |-> l, right |-> <<>>] : l \in SeqsUpTo(Samples, n)}
    \cup
    UNION {{[ndim |-> 2, left |-> l, right |-> r] :
                l \in [1..k -> Samples], r \in [1..k -> Samples]} :
           k \in 0..n}

---------------------------------------------------------------------------
(* Recognizer output.  A result record is the parsed JSON object: it always *)
(* has "text" and has "result" (the word list) only when words were         *)
(* recognized.  A word is {word, start, end, conf}.                         *)

WORDS_PER_LINE == 14

WordText(g) == "w" \o ToString(g)

\* the g-th word of a run of n words; chronological, or in reverse when
\* chrono is FALSE (a recognizer that is not well-formed)
Word(g, n, chrono) ==
    LET t == IF chrono THEN g ELSE n - g
    IN [word |-> WordText(g), start |-> t * 300, end |-> t * 300 + 200, conf |-> 1]

NoResultRecord == [text |-> ""]
ResultRecord(words) == [text |-> "", result |-> words]

RECURSIVE SumLens(_)
SumLens(lens) ==
    IF lens = <<>> THEN 0
    ELSE (IF Head(lens) < 0 THEN 0 ELSE Head(lens)) + SumLens(Tail(lens))

\* records with the given word counts (-1: a record without "result"),
\* the words numbered through the records
MakeResults(lens, chrono) ==
    [r \in 1..Len(lens) |->
        IF lens[r] < 0 THEN NoResultRecord
        ELSE LET off == SumLens(SubSeq(lens, 1, r - 1))
             IN ResultRecord([k \in 1..lens[r] |->
                                Word(off + k, SumLens(lens), chrono)])]

\* word counts the records are drawn from: around one and two lines
RecLens == {-1, 0, 1, 2, WORDS_PER_LINE - 1, WORDS_PER_LINE,
            WORDS_PER_LINE + 1, 2 * WORDS_PER_LINE + 1}

---------------------------------------------------------------------------
(* Assembly, src/sharetape.py:136-161 *)

\* " ".join(seq)
RECURSIVE Join(_)
Join(s) ==
    IF s = <<>> THEN ""
    ELSE IF Len(s) = 1 THEN s[1]
    ELSE s[1] \o " " \o Join(Tail(s))

\* srt.Subtitle(index, content, start, end) for words[j : j + WORDS_PER_LINE]
Subtitle(index, line) ==
    [index   |-> index,
     content |-> Join([i \in 1..Len(line) |-> line[i].word]),
     start   |-> line[1].start,
     end     |-> line[Len(line)].end]

\* the inner loop without its last, shorter window
LinesOfFullOnly(words, n_subs) ==
    LET n == Len(words) \div WORDS_PER_LINE
    IN [k \in 1..n |->
           Subtitle(n_subs + k - 1,
                    SubSeq(words, (k - 1) * WORDS_PER_LINE + 1,
                           k * WORDS_PER_LINE))]

\* the inner loop numbering each record's cues from 0
LinesOfPerRecordIndex(words, n_subs) ==
    LET n == (Len(words) + WORDS_PER_LINE - 1) \div WORDS_PER_LINE
    IN [k \in 1..n |->
           Subtitle(k - 1,
                    SubSeq(words, (k - 1) * WORDS_PER_LINE + 1,
                           Min(k * WORDS_PER_LINE, Len(words))))]

\* the cues the inner loop `for j in range(0, len(words), WORDS_PER_LINE)`
\* appends to subs, which holds n_subs cues when it starts
LinesOf(words, n_subs) ==
    LET n == (Len(words) + WORDS_PER_LINE - 1) \div WORDS_PER_LINE
    IN [k \in 1..n |->
           Subtitle(n_subs + k - 1,
                    SubSeq(words, (k - 1) * WORDS_PER_LINE + 1,
                           Min(k * WORDS_PER_LINE, Len(words))))]

\* `if "result" not in jres: break` instead of continue
SkipToEnd(i, n) == n + 1

\* `if "result" not in jres: continue`: on to the next record
SkipRecord(i, n) == i + 1

\* one iteration of `for res in results`
AssembleRecord ==
    /\ pc = "assemble"
    /\ res_i <= Len(results)
    /\ LET jres == results[res_i]
       IN IF "result" \notin DOMAIN jres
          THEN /\ res_i' = SkipRecord(res_i, Len(results))
               /\ UNCHANGED <<subs, total_lines, total_words>>
          ELSE LET words == jres.result
                   new == LinesOf(words, Len(subs))
               IN /\ total_words' = total_words \o words
                  /\ subs' = subs \o new
                  /\ total_lines' =
                        total_lines \o [k \in 1..Len(new) |-> new[k].content]
                  /\ res_i' = res_i + 1
    /\ UNCHANGED <<pc, error, results, ret, audioVars, runVars>>

\* after the loop: transcript, subtitle, return.  The subtitle document is
\* kept as the cue list handed to srt.compose.
Compose ==
    /\ pc = "assemble"
    /\ res_i > Len(results)
    /\ ret' = [transcript |-> Join(total_lines),
               words      |-> total_words,
               subtitle   |-> subs]
    /\ pc' = "returned"
    /\ UNCHANGED <<error, results, res_i, subs, total_lines, total_words,
                   audioVars, runVars>>

---------------------------------------------------------------------------
(* Values of the variables a specification does not use *)

NoAudio == [ndim |-> 1, left |-> <<>>, right |-> <<>>]
NoWave  == [nchannels |-> 0, sampwidth |-> 0, comptype |-> "NONE",
            nframes |-> 0, pos |-> 0]
NoRec   == [state |-> "absent", endpoint |-> FALSE, words |-> <<>>,
            samples |-> 0, n_words |-> 0, final |-> [text |-> ""]]
NoRet   == [transcript |-> "", words |-> <<>>, subtitle |-> <<>>]

AudioIdle == data = NoAudio /\ mono_data = <<>>

RunIdle ==
    /\ video = "" /\ clip_audio = FALSE /\ audio_exists = TRUE
    /\ progress_cb = "none" /\ reports = <<>>
    /\ wf = NoWave /\ total_frames = 0 /\ processed_frames = 0
    /\ rec = NoRec /\ fed = <<>> /\ completed = <<>> /\ final_calls = 0
    /\ artifacts = <<>>

AsmIdle ==
    /\ results = <<>> /\ res_i = 1 /\ subs = <<>> /\ total_lines = <<>>
    /\ total_words = <<>> /\ ret = NoRet

---------------------------------------------------------------------------
(* SpecDownmix: the conversion applied to every bounded input *)

Downmix ==
    /\ pc = "downmix"
    /\ mono_data' = ToMono(data)
    /\ pc' = "downmixed"
    /\ UNCHANGED <<error, data, runVars, asmVars>>

InitDownmix ==
    /\ pc = "downmix" /\ error = "none"
    /\ data \in AudioInputs(MaxFrames)
    /\ mono_data = <<>>
    /\ RunIdle /\ AsmIdle

NextDownmix == Downmix

SpecDownmix == InitDownmix /\ [][NextDownmix]_vars

---------------------------------------------------------------------------
(* SpecAssemble: the assembly loop applied to every bounded record sequence *)

InitAssemble ==
    /\ pc = "assemble" /\ error = "none"
    /\ \E lens \in SeqsUpTo(RecLens, MaxRecords), chrono \in BOOLEAN :
           results = MakeResults(lens, chrono)
    /\ res_i = 1 /\ subs = <<>> /\ total_lines = <<>> /\ total_words = <<>>
    /\ ret = NoRet
    /\ AudioIdle /\ RunIdle

NextAssemble == AssembleRecord \/ Compose

SpecAssemble == InitAssemble /\ [][NextAssemble]_vars

---------------------------------------------------------------------------
(* Progress reporting, src/sharetape.py:34-40 *)

\* what the installed callback does when invoked: return; raise TypeError
\* on four arguments and return on three; raise TypeError on both calls;
\* raise another exception
CallbackBehaviours ==
    {"returns", "TypeError_then_returns", "TypeError_twice", "raises"}

\* the exception that leaves _progress, "none" if it returns
ProgressRaises(cb, behaviour) ==
    IF cb = "none" THEN "none"
    ELSE CASE behaviour = "returns"                -> "none"
           [] behaviour = "TypeError_then_returns" -> "none"
           [] behaviour = "TypeError_twice"        -> "TypeError"
           [] behaviour = "raises"                 -> "Exception"

\* self._progress(desc, current, total, unit), continuing at `next` when it
\* returns
Progress(desc, current, total, behaviour, next) ==
    /\ reports' = Append(reports, <<desc, current, total>>)
    /\ LET e == ProgressRaises(progress_cb, behaviour)
       IN IF e = "none"
          THEN pc' = next /\ error' = error
          ELSE pc' = "crashed" /\ error' = e

---------------------------------------------------------------------------
(* The recognizer (vosk KaldiRecognizer), as the driver uses it:            *)
(* AcceptWaveform reports whether the decoder stands at the end of a       *)
(* segment, which an empty buffer does not change; Result hands out the    *)
(* segment and the next AcceptWaveform starts a new one.                   *)

NewRecognizer ==
    [state |-> "init", endpoint |-> FALSE, words |-> <<>>, samples |-> 0,
     n_words |-> 0, final |-> NoResultRecord]

RecordOf(ws) == IF ws = <<>> THEN NoResultRecord ELSE ResultRecord(ws)

\* rec.AcceptWaveform(buffer of n_bytes): the recognizer afterwards; its
\* return value is the endpoint field.  new_words and ep are what the
\* decoder makes of the audio.
AcceptWaveform(r, n_bytes, new_words, ep) ==
    LET r1 == IF r.state \in {"init", "running"} THEN r
              ELSE [r EXCEPT !.words = <<>>, !.endpoint = FALSE]
        r2 == IF n_bytes = 0 THEN r1
              ELSE [r1 EXCEPT !.words = @ \o new_words,
                              !.n_words = @ + Len(new_words),
                              !.samples = @ + n_bytes \div 2,
                              !.endpoint = ep]
    IN [r2 EXCEPT !.state = "running"]

\* rec.Result(): <<record, recognizer afterwards>>
Result(r) ==
    IF r.state # "running" THEN <<NoResultRecord, r>>
    ELSE <<RecordOf(r.words), [r EXCEPT !.state = "endpoint"]>>

\* rec.FinalResult(): <<record, recognizer afterwards>>
FinalResult(r) ==
    IF r.state # "running"
    THEN <<NoResultRecord, [r EXCEPT !.final = NoResultRecord]>>
    ELSE <<RecordOf(r.words),
           [r EXCEPT !.state = "finalized", !.final = RecordOf(r.words)]>>

\* what the decoder may make of one chunk: at most one more word, and an
\* endpoint or none
NewWords(r) == {<<>>, <<Word(r.n_words + 1, 0, TRUE)>>}

---------------------------------------------------------------------------
(* extract_transcript and handle_speech_2_text, src/sharetape.py:54-133 *)

chunk_frames == 4000

\* frame counts of the audio: multiples of the chunk size and their
\* neighbours, up to MaxChunks chunks
FrameCounts ==
    {k * chunk_frames + d :
        k \in 0..(MaxChunks - 1), d \in {0, 1, chunk_frames - 1}}
    \cup {MaxChunks * chunk_frames}

\* what wave.open finds in the mono file: a mono 16-bit PCM header, or one
\* of the three headers the validation rejects
MonoHeaders ==
    {[nchannels |-> 1, sampwidth |-> 2, comptype |-> "NONE"],
     [nchannels |-> 2, sampwidth |-> 2, comptype |-> "NONE"],
     [nchannels |-> 1, sampwidth |-> 1, comptype |-> "NONE"],
     [nchannels |-> 1, sampwidth |-> 2, comptype |-> "ULAW"]}

\* the condition of the `if` at lines 93-97
InvalidFormat(w) ==
    \/ w.nchannels # 1
    \/ w.sampwidth # 2
    \/ w.comptype # "NONE"

\* processed_frames = frames_read: the count of the last chunk alone
NextProcessedLastChunk(processed, frames_read, total) == frames_read

\* processed_frames = min(processed_frames + frames_read, total_frames)
NextProcessed(processed, frames_read, total) ==
    Min(processed + frames_read, total)

\* the buffer of the completion query fed the chunk again
QueryBufferChunk(n_bytes) == n_bytes

\* the buffer of the completion query rec.AcceptWaveform(b""): its length
QueryBuffer(n_bytes) == 0

\* the final result appended only when it holds words
AppendFinalIfWords(res, r) ==
    IF "result" \in DOMAIN r THEN Append(res, r) ELSE res

\* results.append(rec.FinalResult())
AppendFinal(res, r) == Append(res, r)

recVars == <<wf, total_frames, processed_frames, rec, fed, completed,
             final_calls>>
inputVars == <<video, clip_audio, progress_cb>>

\* `if self.video != ""` holds: the first progress report of the extraction
ExtractBegin ==
    /\ pc = "start"
    /\ video # ""
    /\ \E b \in CallbackBehaviours :
          Progress("Extracting audio", 0, 1, b, "extract")
    /\ UNCHANGED <<inputVars, audio_exists, recVars, artifacts, asmVars,
                   audioVars>>

\* the clip is opened and its audio, if it has any, is written to self.audio
ExtractWrite ==
    /\ pc = "extract"
    /\ audio_exists' = (audio_exists \/ clip_audio)
    /\ \E b \in CallbackBehaviours :
          Progress("Extracting audio", 1, 1, b, "prepare")
    /\ UNCHANGED <<inputVars, recVars, artifacts, asmVars, audioVars>>

\* handle_speech_2_text is entered: the first report of the preparation
PrepareBegin ==
    /\ \/ pc = "start" /\ video = ""
       \/ pc = "prepare"
    /\ \E b \in CallbackBehaviours :
          Progress("Preparing audio", 0, 1, b, "read")
    /\ UNCHANGED <<inputVars, audio_exists, recVars, artifacts, asmVars,
                   audioVars>>

\* wav.read(self.audio), which raises when the file does not exist, the
\* conversion to mono, wav.write and the second report
PrepareAudio ==
    /\ pc = "read"
    /\ IF ~audio_exists
       THEN /\ pc' = "crashed"
            /\ error' = "FileNotFoundError"
            /\ UNCHANGED reports
       ELSE \E b \in CallbackBehaviours :
               Progress("Preparing audio", 1, 1, b, "open")
    /\ UNCHANGED <<inputVars, audio_exists, recVars, artifacts, asmVars,
                   audioVars>>

\* wave.open on the mono file and the validation: a rejected header returns
\* three empty strings; otherwise the recognizer is made, the loop's
\* variables are set and the first report of the transcription is made
OpenMono ==
    /\ pc = "open"
    /\ \E h \in MonoHeaders, n \in FrameCounts :
         /\ wf' = [nchannels |-> h.nchannels, sampwidth |-> h.sampwidth,
                   comptype |-> h.comptype, nframes |-> n, pos |-> 0]
         /\ IF InvalidFormat(h)
            THEN /\ ret' = [transcript |-> "", words |-> "", subtitle |-> ""]
                 /\ pc' = "returned"
                 /\ UNCHANGED <<error, reports, total_frames, processed_frames,
                                rec, results, subs>>
            ELSE /\ rec' = NewRecognizer
                 /\ results' = <<>>
                 /\ subs' = <<>>
                 /\ total_frames' = n
                 /\ processed_frames' = 0
                 /\ \E b \in CallbackBehaviours :
                       Progress("Transcribing", 0, n, b, "transcribe")
                 /\ UNCHANGED ret
    /\ UNCHANGED <<inputVars, audio_exists, fed, completed, final_calls,
                   artifacts, res_i, total_lines, total_words, audioVars>>

\* one iteration of the loop that reads a chunk: feed, count, report, query
\* and collect
TranscribeChunk ==
    /\ pc = "transcribe"
    /\ wf.pos < wf.nframes
    /\ LET n == Min(chunk_frames, wf.nframes - wf.pos)
           data_bytes == n * wf.sampwidth * wf.nchannels
           frames_read == data_bytes \div (wf.sampwidth * wf.nchannels)
       IN /\ wf' = [wf EXCEPT !.pos = @ + n]
          /\ fed' = Append(fed, n)
          /\ processed_frames' =
                NextProcessed(processed_frames, frames_read, total_frames)
          /\ \E new_words \in NewWords(rec), ep \in BOOLEAN,
                b \in CallbackBehaviours :
               LET r1 == AcceptWaveform(rec, data_bytes, new_words, ep)
                   r2 == AcceptWaveform(r1, QueryBuffer(data_bytes), <<>>, ep)
               IN /\ completed' = IF r1.endpoint
                                  THEN Append(completed, RecordOf(r1.words))
                                  ELSE completed
                  /\ Progress("Transcribing", processed_frames', total_frames,
                              b, "transcribe")
                  /\ IF ProgressRaises(progress_cb, b) # "none"
                     THEN rec' = r1 /\ UNCHANGED results
                     ELSE IF r2.endpoint
                          THEN /\ results' = Append(results, Result(r2)[1])
                               /\ rec' = Result(r2)[2]
                          ELSE rec' = r2 /\ UNCHANGED results
    /\ UNCHANGED <<inputVars, audio_exists, total_frames, final_calls,
                   artifacts, res_i, subs, total_lines, total_words, ret,
                   audioVars>>

\* readframes returns no bytes: the loop ends, the final result is appended,
\* the last report is made and the assembly's variables are set
FinishTranscription ==
    /\ pc = "transcribe"
    /\ wf.pos = wf.nframes
    /\ results' = AppendFinal(results, FinalResult(rec)[1])
    /\ rec' = FinalResult(rec)[2]
    /\ final_calls' = final_calls + 1
    /\ \E b \in CallbackBehaviours :
          Progress("Transcribing", total_frames, total_frames, b, "assemble")
    /\ res_i' = 1
    /\ total_lines' = <<>>
    /\ total_words' = <<>>
    /\ UNCHANGED <<inputVars, audio_exists, wf, total_frames,
                   processed_frames, fed, completed, artifacts, subs, ret,
                   audioVars>>

\* fil.write(transcript)
WriteTranscript ==
    /\ pc = "returned"
    /\ artifacts' = Append(artifacts, "transcript")
    /\ pc' = "save_words"
    /\ UNCHANGED <<error, inputVars, audio_exists, reports, recVars, asmVars,
                   audioVars>>

\* self.save_data(words)
SaveWords ==
    /\ pc = "save_words"
    /\ artifacts' = Append(artifacts, "words")
    /\ pc' = "write_subtitles"
    /\ UNCHANGED <<error, inputVars, audio_exists, reports, recVars, asmVars,
                   audioVars>>

\* f.writelines(subtitle)
WriteSubtitles ==
    /\ pc = "write_subtitles"
    /\ artifacts' = Append(artifacts, "subtitles")
    /\ pc' = "done"
    /\ UNCHANGED <<error, inputVars, audio_exists, reports, recVars, asmVars,
                   audioVars>>

\* main.py: exactly one of --video and --audio; with --video, self.audio is
\* a file of the directory main has just made
Init ==
    /\ pc = "start" /\ error = "none"
    /\ \/ video = "video" /\ clip_audio \in BOOLEAN /\ audio_exists = FALSE
       \/ video = "" /\ clip_audio = FALSE /\ audio_exists \in BOOLEAN
    /\ progress_cb \in {"none", "installed"}
    /\ reports = <<>>
    /\ wf = NoWave /\ total_frames = 0 /\ processed_frames = 0
    /\ rec = NoRec /\ fed = <<>> /\ completed = <<>> /\ final_calls = 0
    /\ artifacts = <<>>
    /\ AsmIdle /\ AudioIdle

Next ==
    \/ ExtractBegin
    \/ ExtractWrite
    \/ PrepareBegin
    \/ PrepareAudio
    \/ OpenMono
    \/ TranscribeChunk
    \/ FinishTranscription
    \/ AssembleRecord
    \/ Compose
    \/ WriteTranscript
    \/ SaveWords
    \/ WriteSubtitles

Spec == Init /\ [][Next]_vars

---------------------------------------------------------------------------
(* Properties of the downmix (SpecDownmix) *)

InInt16(x) == Int16Min <= x /\ x <= Int16Max

\* s / 2 rounded to the nearest integer, ties broken as the mode says
Round(mode, s) ==
    LET q == s \div 2
    IN IF s % 2 = 0 THEN q
       ELSE CASE mode = "half_even"      -> IF q % 2 = 0 THEN q ELSE q + 1
              [] mode = "half_up"        -> q + 1
              [] mode = "half_from_zero" -> IF s > 0 THEN q + 1 ELSE q

RoundingModes == {"half_even", "half_up", "half_from_zero"}

Downmixed == pc = "downmixed" /\ data.ndim = 2

\* C4 as stated: every output sample is the rounded average of its pair
\* (under one of the usual rounding modes) and lies in the int16 range.
C4_RoundedAverage ==
    Downmixed =>
        /\ Len(mono_data) = Len(data.left)
        /\ \E mode \in RoundingModes :
             \A i \in 1..Len(mono_data) :
                 mono_data[i] = Round(mode, data.left[i] + data.right[i])
        /\ \A i \in 1..Len(mono_data) : InInt16(mono_data[i])

\* C4 amended: every output sample is the floor of the average of its pair,
\* floor((L[i] + R[i]) / 2), and lies in the int16 range without wrap-around.
C4_FloorAverage ==
    Downmixed =>
        /\ Len(mono_data) = Len(data.left)
        /\ \A i \in 1..Len(mono_data) :
             LET s == data.left[i] + data.right[i]
             IN /\ 2 * mono_data[i] <= s
                /\ s <= 2 * mono_data[i] + 1
                /\ InInt16(mono_data[i])

\* a downmix with both channels at the positive extreme in one frame and
\* an odd negative sum in another
C4_Witness ==
    /\ Downmixed
    /\ \E i \in 1..Len(mono_data) :
         /\ data.left[i] = Int16Max /\ data.right[i] = Int16Max
         /\ mono_data[i] = Int16Max
    /\ \E j \in 1..Len(mono_data) :
         /\ data.left[j] + data.right[j] = -1
         /\ mono_data[j] = -1

---------------------------------------------------------------------------
(* Properties of the assembly (SpecAssemble) *)

HasResult(r) == "result" \in DOMAIN r

\* the words of the records that have a result, in record order
RECURSIVE Flatten(_)
Flatten(rs) ==
    IF rs = <<>> THEN <<>>
    ELSE (IF HasResult(Head(rs)) THEN Head(rs).result ELSE <<>>)
         \o Flatten(Tail(rs))

\* a word sequence cut into consecutive windows of WORDS_PER_LINE words
RECURSIVE Windows(_)
Windows(ws) ==
    IF Len(ws) = 0 THEN <<>>
    ELSE <<SubSeq(ws, 1, Min(WORDS_PER_LINE, Len(ws)))>>
         \o Windows(SubSeq(ws, WORDS_PER_LINE + 1, Len(ws)))

\* the windows of each record's own words, record after record
RECURSIVE WindowsPerRecord(_)
WindowsPerRecord(rs) ==
    IF rs = <<>> THEN <<>>
    ELSE (IF HasResult(Head(rs)) THEN Windows(Head(rs).result) ELSE <<>>)
         \o WindowsPerRecord(Tail(rs))

CeilDiv(m, n) == (m + n - 1) \div n

RECURSIVE SumCeil(_)
SumCeil(rs) ==
    IF rs = <<>> THEN 0
    ELSE (IF HasResult(Head(rs))
          THEN CeilDiv(Len(Head(rs).result), WORDS_PER_LINE) ELSE 0)
         + SumCeil(Tail(rs))

WordsText(ws) == Join([i \in 1..Len(ws) |-> ws[i].word])

\* the cues are exactly the given windows: text, start of the first word,
\* end of the last word
CuesAre(cues, windows) ==
    /\ Len(cues) = Len(windows)
    /\ \A k \in 1..Len(cues) :
         /\ cues[k].content = WordsText(windows[k])
         /\ cues[k].start = windows[k][1].start
         /\ cues[k].end = windows[k][Len(windows[k])].end

\* C1 as stated: the cues are the windows of 14 words of the global word
\* sequence, ceil(M / 14) of them, however the words lie in the records.
C1_GlobalWindows ==
    pc = "returned" =>
        /\ Len(ret.subtitle) = CeilDiv(Len(Flatten(results)), WORDS_PER_LINE)
        /\ CuesAre(ret.subtitle, Windows(Flatten(results)))

\* C1 amended: the words are windowed record by record.  A record with m
\* words gives ceil(m / 14) consecutive cues, each holding 14 consecutive
\* words of that record except its last, which holds the rest; no cue spans
\* two records, and the number of cues is the sum of ceil(m / 14) over the
\* records.  The transcript text is the words of all records joined by
\* single spaces.
C1_PerRecordWindows ==
    pc = "returned" =>
        /\ Len(ret.subtitle) = SumCeil(results)
        /\ CuesAre(ret.subtitle, WindowsPerRecord(results))
        /\ \A k \in 1..Len(ret.subtitle) : ret.subtitle[k].content # ""
        /\ ret.transcript = WordsText(Flatten(results))

\* the scenario of three records with 2 words, no result, and 1 word: two
\* cues, one per record with words
C1_Witness ==
    /\ pc = "returned"
    /\ Len(results) = 3
    /\ HasResult(results[1]) /\ Len(results[1].result) = 2
    /\ ~HasResult(results[2])
    /\ HasResult(results[3]) /\ Len(results[3].result) = 1
    /\ Len(ret.subtitle) = 2
    /\ ret.transcript = "w1 w2 w3"

Chronological(ws) ==
    \A i, j \in 1..Len(ws) : i <= j => ws[i].start <= ws[j].start

C8_WordSequence ==
    /\ pc = "assemble" =>
          total_words = Flatten(SubSeq(results, 1, res_i - 1))
    /\ pc = "returned" => ret.words = Flatten(results)

\* a record without result followed by a record whose words are included
C8_Witness ==
    /\ pc = "returned"
    /\ \E r1, r2 \in 1..Len(results) :
         /\ r1 < r2
         /\ ~HasResult(results[r1])
         /\ HasResult(results[r2]) /\ Len(results[r2].result) > 0
         /\ ret.words[Len(ret.words)] =
               results[r2].result[Len(results[r2].result)]

---------------------------------------------------------------------------
(* Properties of the run (Spec) *)

IsTranscribing(r) == r[1] = "Transcribing"

\* the <<desc, processedFrames, totalFrames>> reported for the transcription
TranscribingReports == SelectSeq(reports, IsTranscribing)

RECURSIVE Sum(_)
Sum(s) == IF s = <<>> THEN 0 ELSE Head(s) + Sum(Tail(s))

\* C2: the frames reported for the transcribing stage never decrease, lie
\* between 0 and the total, which is the stream's frame count, and once the
\* stream is read to its end the last report equals the total.
C2_ProgressMonotone ==
    LET tr == TranscribingReports
    IN /\ \A k \in 1..Len(tr) :
            /\ 0 <= tr[k][2] /\ tr[k][2] <= tr[k][3]
            /\ tr[k][3] = wf.nframes
       /\ \A k \in 1..(Len(tr) - 1) : tr[k][2] <= tr[k + 1][2]
       /\ final_calls = 1 =>
             /\ Len(tr) = Len(fed) + 2
             /\ tr[Len(tr)][2] = tr[Len(tr)][3]

\* a finished recognition of one full chunk and one frame more
C2_Witness ==
    /\ final_calls = 1
    /\ total_frames = chunk_frames + 1
    /\ Len(TranscribingReports) = 4
    /\ TranscribingReports[3][2] = total_frames
    /\ pc = "done"

ValidationFailed == wf # NoWave /\ InvalidFormat(wf)

C6_ProgressNeverRaises ==
    ~(pc = "crashed" /\ error \in {"TypeError", "Exception"})

\* C7: a run on a video without audio track does not end with an error
\* (stated for the runs without progress callback).
C7_NoAudioTrackRunSurvives ==
    (video # "" /\ ~clip_audio /\ progress_cb = "none") => pc # "crashed"

\* the words the recognizer has recognized so far
Recognized == [g \in 1..rec.n_words |-> Word(g, 0, TRUE)]

\* C9: between two chunks the accumulated records are exactly the segments
\* the recognizer completed, in order; the completion query consumes no
\* audio (the recognizer has consumed the frames read from the stream, once
\* each); after the loop the records before the final one are the completed
\* segments and no recognized word is missing from the records.
C9_SegmentsCollected ==
    /\ pc = "transcribe" => results = completed
    /\ rec # NoRec => rec.samples = wf.pos /\ wf.pos = Sum(fed)
    /\ final_calls = 1 =>
          /\ SubSeq(results, 1, Len(results) - 1) = completed
          /\ Flatten(results) = Recognized

\* a segment with words was completed and collected, and a chunk follows
C9_Witness ==
    /\ pc = "transcribe"
    /\ wf.pos < wf.nframes
    /\ Len(completed) >= 1
    /\ results = completed
    /\ HasResult(results[1])

\* C10: the final result is requested at most once, only when the stream is
\* read to its end, and it is appended as the last record whatever it
\* holds: the records are then the K records of the loop and the final one.
C10_FinalResultOnce ==
    /\ final_calls <= 1
    /\ (final_calls = 0 /\ pc = "transcribe") => Len(results) = Len(completed)
    /\ (rec # NoRec /\ pc \notin {"transcribe", "crashed"}) => final_calls = 1
    /\ final_calls = 1 =>
          /\ wf.pos = wf.nframes
          /\ Sum(fed) = total_frames
          /\ Len(results) = Len(completed) + 1
          /\ results[Len(results)] = rec.final

\* a finished run whose final result is empty and follows a loop record
C10_Witness ==
    /\ pc = "done"
    /\ final_calls = 1
    /\ Len(completed) >= 1
    /\ Len(results) = Len(completed) + 1
    /\ ~HasResult(results[Len(results)])

===========================================================================
